---- MODULE Spec2Model ----
(***************************************************************************)
(* node-latex-render: the log parser of src/logs.ts (createLogText, the    *)
(* line cursor, parseLog and its classifiers, the file tracker) and the    *)
(* level filter that render applies to the parsed records.                 *)
(*                                                                         *)
(* A JavaScript string is a sequence of one-character strings, so that     *)
(* slicing, searching and the regular expressions of the source are        *)
(* computed character by character.  An optional value is a sequence of    *)
(* length 0 (undefined) or 1.                                              *)
(***************************************************************************)
EXTENDS Integers, Sequences, FiniteSets, TLC

VARIABLES
    wrappedIn,        \* history: the physical lines the log text was built from
    separators,       \* history: the line terminator written after each of them
    logEntries,       \* parseLog: the text read from the log file
    lines,            \* LogTextState.lines
    row,              \* LogTextState.row
    state,            \* parseLog: State.NORMAL / State.ERROR
    logItem,          \* parseLog: the record opened by an error line (optional)
    logItems,         \* parseLog: the records collected so far
    currentFilePath,  \* parseLog: optional path
    fileStack,        \* parseLog: sequence of FileEntry paths, bottom first
    scanLine,         \* parseParensForFilenames: the rest of the line to scan
    openParentheses,  \* parseParensForFilenames: ordinary '(' not yet closed
    pc,               \* position in parseLog / render
    trig,             \* history: per record, the dispatch that produced it
    marks,            \* history: the markers the tracker has consumed
    logLevel,         \* render: options.logLevel (optional)
    impl,             \* which render produced logs
    logs,             \* render: the filtered records it returns
    files,            \* render: the names of the in-memory files (optional)
    source,           \* render: the path of the source file
    tempDir,          \* render: the directory made for the files (optional)
    pdf,              \* render: the path compile returned (optional)
    tmp               \* the directories that exist under os.tmpdir()

vars == <<wrappedIn, separators, logEntries, lines, row, state, logItem,
          logItems, currentFilePath, fileStack, scanLine, openParentheses,
          pc, trig, marks, logLevel, impl, logs, files, source, tempDir,
          pdf, tmp>>

(***************************************************************************)
(* Strings                                                                 *)
(***************************************************************************)
None == <<>>
Some(v) == <<v>>

Digits == <<"0", "1", "2", "3", "4", "5", "6", "7", "8", "9">>
Lower == <<"a", "b", "c", "d", "e", "f", "g", "h", "i", "j", "k", "l", "m",
           "n", "o", "p", "q", "r", "s", "t", "u", "v", "w", "x", "y", "z">>
Upper == <<"A", "B", "C", "D", "E", "F", "G", "H", "I", "J", "K", "L", "M",
           "N", "O", "P", "Q", "R", "S", "T", "U", "V", "W", "X", "Y", "Z">>

Range(s) == {s[i] : i \in 1..Len(s)}
IsDigit(c) == c \in Range(Digits)
\* \w of a regular expression
IsWordChar(c) == c \in Range(Digits) \cup Range(Lower) \cup Range(Upper) \cup {"_"}
\* \s of a regular expression, over the characters a logical line can hold
IsSpaceChar(c) == c \in {" ", "\t"}

Min(a, b) == IF a < b THEN a ELSE b
Max(a, b) == IF a > b THEN a ELSE b

\* s.slice(a, b) and s.slice(a), 0-based, for 0 <= a
Slice(s, a, b) == SubSeq(s, a + 1, Min(b, Len(s)))
SliceFrom(s, a) == SubSeq(s, a + 1, Len(s))
\* s.slice(-n)
SliceLast(s, n) == SubSeq(s, Max(Len(s) - n, 0) + 1, Len(s))
\* s.charAt(i), 0-based: the empty string past the end
CharAt(s, i) == IF i < Len(s) THEN <<s[i + 1]>> ELSE <<>>

\* p occurs in s at 0-based position i
OccursAt(s, p, i) == i + Len(p) <= Len(s) /\ SubSeq(s, i + 1, i + Len(p)) = p
StartsWith(s, p) == OccursAt(s, p, 0)

RECURSIVE JoinWith(_, _)
\* parts.join(sep)
JoinWith(parts, sep) ==
    IF Len(parts) = 0 THEN <<>>
    ELSE IF Len(parts) = 1 THEN parts[1]
    ELSE parts[1] \o sep \o JoinWith(Tail(parts), sep)

RECURSIVE DigitsValue(_, _)
\* the decimal value of a run of digits (parseInt(ds, 10)), acc the value so far
DigitsValue(ds, acc) ==
    IF Len(ds) = 0 THEN acc
    ELSE DigitsValue(Tail(ds),
                     acc * 10 + (CHOOSE d \in 0..9 : Digits[d + 1] = ds[1]))

RECURSIVE DigitRunEnd(_, _)
\* [0-9]* from 0-based position i: the position after the run
DigitRunEnd(s, i) ==
    IF i < Len(s) /\ IsDigit(s[i + 1]) THEN DigitRunEnd(s, i + 1) ELSE i

(***************************************************************************)
(* createLogText (src/logs.ts:53-77)                                       *)
(***************************************************************************)
LOG_WRAP_LIMIT == 79

\* what text.replace(/(\r\n)|\r/g, "\n") leaves of the character at 1-based
\* position i: "\r" becomes "\n", and the "\n" of a "\r\n" goes with its "\r"
NormalizedChar(text, i) ==
    IF text[i] = "\r" THEN <<"\n">>
    ELSE IF text[i] = "\n" /\ i > 1 /\ text[i - 1] = "\r" THEN <<>>
    ELSE <<text[i]>>

RECURSIVE NormalizeRange(_, _, _)
\* the replacement over positions lo..hi, by halves
NormalizeRange(text, lo, hi) ==
    IF lo > hi THEN <<>>
    ELSE IF lo = hi THEN NormalizedChar(text, lo)
    ELSE LET mid == (lo + hi) \div 2
         IN  NormalizeRange(text, lo, mid) \o NormalizeRange(text, mid + 1, hi)

RECURSIVE SplitFrom(_, _)
\* text.split("\n") from 1-based position start on
SplitFrom(text, start) ==
    LET breaks == {i \in start..Len(text) : text[i] = "\n"}
    IN  IF breaks = {} THEN <<SubSeq(text, start, Len(text))>>
        ELSE LET nl == CHOOSE i \in breaks : \A k \in breaks : i <= k
             IN  <<SubSeq(text, start, nl - 1)>> \o SplitFrom(text, nl + 1)

\* the condition without its test for a trailing "..."
IsWrapContinuation_IgnoresEllipsis(prevLine, currentLine) ==
    /\ Len(prevLine) = LOG_WRAP_LIMIT
    /\ CharAt(currentLine, 0) # <<"!">>

\* the condition of the if of the loop, for wrappedLines[i] (0-based i >= 1)
IsWrapContinuation(prevLine, currentLine) ==
    /\ Len(prevLine) = LOG_WRAP_LIMIT
    /\ SliceLast(prevLine, 3) # <<".", ".", ".">>
    /\ CharAt(currentLine, 0) # <<"!">>

RECURSIVE MergeWrapped(_, _, _)
\* the for loop: i is 0-based, acc is lines
MergeWrapped(wrappedLines, i, acc) ==
    IF i >= Len(wrappedLines) THEN acc
    ELSE LET prevLine == wrappedLines[i]
             currentLine == wrappedLines[i + 1]
         IN  IF IsWrapContinuation(prevLine, currentLine)
             THEN MergeWrapped(wrappedLines, i + 1,
                     [acc EXCEPT ![Len(acc)] = @ \o currentLine])
             ELSE MergeWrapped(wrappedLines, i + 1, Append(acc, currentLine))

createLogText(text) ==
    LET normalizedText == NormalizeRange(text, 1, Len(text))
        wrappedLines == SplitFrom(normalizedText, 1)
    IN  [lines |-> MergeWrapped(wrappedLines, 1, <<wrappedLines[1]>>),
         row |-> 0]

(***************************************************************************)
(* The patterns of src/logs.ts:4-9 and of the cursor and the classifiers   *)
(***************************************************************************)
STR_LaTeX == <<"L", "a", "T", "e", "X">>
STR_Font == <<" ", "F", "o", "n", "t">>
STR_Warning == <<"W", "a", "r", "n", "i", "n", "g">>
STR_WarningColon == <<"W", "a", "r", "n", "i", "n", "g", ":">>
STR_Over == <<"O", "v", "e", "r">>
STR_Under == <<"U", "n", "d", "e", "r">>
STR_Full == <<"f", "u", "l", "l">>
STR_Box == <<"b", "o", "x">>
STR_Package == <<"P", "a", "c", "k", "a", "g", "e">>
STR_Class == <<"C", "l", "a", "s", "s">>
STR_Module == <<"M", "o", "d", "u", "l", "e">>
STR_Line == <<"l", "i", "n", "e">>
STR_Runaway == <<"R", "u", "n", "a", "w", "a", "y", " ", "a", "r", "g", "u", "m", "e", "n", "t">>
STR_FatalBanner ==
    <<"!", " ", " ", "=", "=", ">", " ", "F", "a", "t", "a", "l", " ", "e", "r", "r", "o", "r", " ">>
    \o <<"o", "c", "c", "u", "r", "r", "e", "d", ",", " ", "n", "o", " ", "o", "u", "t", "p", "u", "t", " ">>
    \o <<"P", "D", "F", " ", "f", "i", "l", "e", " ", "p", "r", "o", "d", "u", "c", "e", "d", "!">>

\* the least element of a non-empty set of integers, or -1 (String.search)
LeastOr(S) == IF S = {} THEN -1 ELSE CHOOSE i \in S : \A j \in S : i <= j
GreatestOr(S) == IF S = {} THEN -1 ELSE CHOOSE i \in S : \A j \in S : i >= j

\* /^ *$/
MatchesBlank(l) == \A i \in 1..Len(l) : l[i] = " "
\* /^! /
MatchesFatalMarker(l) == StartsWith(l, <<"!", " ">>)
\* /^l\.[0-9]+/
MatchesContextLine(l) ==
    StartsWith(l, <<"l", ".">>) /\ Len(l) >= 3 /\ IsDigit(l[3])

\* s.match(/l\.([0-9]+)/): parseInt of group 1 of the first match, or None
MatchLineNo(s) ==
    LET at == LeastOr({i \in 0..Len(s) :
                  OccursAt(s, <<"l", ".">>, i) /\ DigitRunEnd(s, i + 2) > i + 2})
    IN  IF at = -1 THEN None
        ELSE Some(DigitsValue(Slice(s, at + 2, DigitRunEnd(s, at + 2)), 0))

\* where the digits of /lines? ([0-9]+)/ start when the pattern matches at i
LinesRegexDigitsAt(s, i) ==
    IF ~OccursAt(s, STR_Line, i) THEN -1
    ELSE LET j == IF OccursAt(s, <<"s">>, i + 4) THEN i + 5 ELSE i + 4
         IN  IF OccursAt(s, <<" ">>, j) /\ DigitRunEnd(s, j + 1) > j + 1
             THEN j + 1 ELSE -1

\* a match that takes the last occurrence of the pattern instead of the first
LINES_REGEX_LastMatch(s) ==
    LET at == GreatestOr({i \in 0..Len(s) : LinesRegexDigitsAt(s, i) # -1})
    IN  IF at = -1 THEN None
        ELSE LET d == LinesRegexDigitsAt(s, at)
             IN  Some(DigitsValue(Slice(s, d, DigitRunEnd(s, d)), 0))

\* s.match(LINES_REGEX): parseInt of group 1 of the first match, or None
LINES_REGEX(s) ==
    LET at == LeastOr({i \in 0..Len(s) : LinesRegexDigitsAt(s, i) # -1})
    IN  IF at = -1 THEN None
        ELSE LET d == LinesRegexDigitsAt(s, at)
             IN  Some(DigitsValue(Slice(s, d, DigitRunEnd(s, d)), 0))

\* the prefixes LATEX_WARNING_REGEX accepts before group 1
LatexWarningPrefixes ==
    { STR_LaTeX \o mid \o <<" ">> \o STR_WarningColon \o <<" ">> :
        mid \in {<<>>, <<"3">>, STR_Font} }
\* line.match(LATEX_WARNING_REGEX): group 1, or None
LATEX_WARNING_REGEX(l) ==
    IF \E p \in LatexWarningPrefixes : StartsWith(l, p)
    THEN LET p == CHOOSE q \in LatexWarningPrefixes : StartsWith(l, q)
         IN  Some(SliceFrom(l, Len(p)))
    ELSE None

\* line.match(HBOX_WARNING_REGEX) is not null
HBOX_WARNING_REGEX(l) ==
    \E a \in {STR_Over, STR_Under}, b \in {<<"v">>, <<"h">>} :
        StartsWith(l, a \o STR_Full \o <<" ", "\\">> \o b \o STR_Box)

\* the length of "(?:Package|Class|Module) " at the start of l, or -1
PackageKindLen(l) ==
    LET ks == {k \in {STR_Package, STR_Class, STR_Module} :
                  StartsWith(l, k \o <<" ">>)}
    IN  IF ks = {} THEN -1 ELSE Len(CHOOSE k \in ks : TRUE) + 1

\* the positions k where "\b.+\b" can end and tail follow, after the kind
PackageNameEnds(l, tail) ==
    LET n == PackageKindLen(l)
    IN  IF n = -1 \/ n >= Len(l) \/ ~IsWordChar(l[n + 1]) THEN {}
        ELSE {k \in (n + 1)..Len(l) :
                 OccursAt(l, tail, k) /\ IsWordChar(l[k])}

\* line.match(PACKAGE_WARNING_REGEX): group 1 (the whole line), or None
PACKAGE_WARNING_REGEX(l) ==
    IF PackageNameEnds(l, <<" ">> \o STR_WarningColon) # {} THEN Some(l) ELSE None

\* line.match(PACKAGE_REGEX): group 1 (the greedy name), or None
PACKAGE_REGEX(l) ==
    LET ends == PackageNameEnds(l, <<" ">> \o STR_Warning)
    IN  IF ends = {} THEN None
        ELSE Some(Slice(l, PackageKindLen(l), GreatestOr(ends)))

\* the position of the ':' before group 2 of FILE_LINE_ERROR_REGEX, or -1:
\* group 1 is greedy, so the last ':' that digits and ": " follow
FileLineColon(l) ==
    IF Len(l) = 0 \/ l[1] \notin {".", "/"} THEN -1
    ELSE GreatestOr({c \in 1..Len(l) :
            /\ OccursAt(l, <<":">>, c)
            /\ DigitRunEnd(l, c + 1) > c + 1
            /\ OccursAt(l, <<":", " ">>, DigitRunEnd(l, c + 1))})
\* FILE_LINE_ERROR_REGEX.test(line)
FILE_LINE_ERROR_REGEX(l) == FileLineColon(l) # -1

\* line.match(/^Runaway argument/) is not null
MatchesRunaway(l) == StartsWith(l, STR_Runaway)

(***************************************************************************)
(* The line cursor (src/logs.ts:79-126)                                    *)
(***************************************************************************)
\* nextLine: the row after the call and the line returned (None for false)
nextLine(ls, r) ==
    [row |-> r + 1,
     value |-> IF r + 1 >= Len(ls) THEN None ELSE Some(ls[r + 2])]

\* a rewind by two positions
rewindLine_Twice(r) == r - 2

\* a rewind that leaves the cursor where it is
rewindLine_Stays(r) == r

\* rewindLine
rewindLine(r) == r - 1

\* nextLineValue.match(match) for the two patterns the callers pass
MatchesKind(kind, l) ==
    IF kind = "context" THEN MatchesContextLine(l) ELSE MatchesBlank(l)

RECURSIVE linesUpToNextMatchingLine(_, _, _, _, _)
\* the while loop: acc is the local lines; gives the buffer and the row left
linesUpToNextMatchingLine(ls, r, kind, stopAtError, acc) ==
    LET n == nextLine(ls, r)
    IN  IF n.value = None THEN [lines |-> acc, row |-> n.row]
        ELSE IF stopAtError /\ MatchesFatalMarker(n.value[1])
             THEN [lines |-> acc, row |-> rewindLine(n.row)]
        ELSE IF MatchesKind(kind, n.value[1])
             THEN [lines |-> Append(acc, n.value[1]), row |-> n.row]
        ELSE linesUpToNextMatchingLine(ls, n.row, kind, stopAtError,
                                       Append(acc, n.value[1]))

linesUpToNextWhitespaceLine(ls, r, stopAtError) ==
    linesUpToNextMatchingLine(ls, r, "blank", stopAtError, <<>>)

(***************************************************************************)
(* The file tracker (src/logs.ts:344-423)                                  *)
(***************************************************************************)
\* s.search(/[...]/) for a set of characters: the first position, or -1
SearchChars(s, cs) == LeastOr({i \in 0..(Len(s) - 1) : s[i + 1] \in cs})

PathStops == {" ", "(", ")", "\\"}
BracketStops == {"\"", "(", ")", "[", "]"}

\* line.match(/^\/?([^ ()\\]+\/)+/) is not null: a '/' after the first
\* character, inside the leading run of characters that are not stops
MatchesPathStart(l) ==
    LET stop == SearchChars(l, PathStops)
        run == IF stop = -1 THEN Len(l) ELSE stop
    IN  \E j \in 1..(run - 1) : l[j + 1] = "/"

\* /\.\w+$/.test(s)
EndsWithExtension(s) ==
    \E k \in 1..(Len(s) - 1) :
        s[k] = "." /\ \A j \in (k + 1)..Len(s) : IsWordChar(s[j])

RECURSIVE SkipSpaces(_, _)
SkipSpaces(s, i) ==
    IF i < Len(s) /\ IsSpaceChar(s[i + 1]) THEN SkipSpaces(s, i + 1) ELSE i
\* /^\s*["()[\]]/.test(s)
StartsBracketed(s) ==
    LET i == SkipSpaces(s, 0) IN i < Len(s) /\ s[i + 1] \in BracketStops

RECURSIVE PathEndLoop(_, _)
\* the while loop of consumeFilePath: the final endOfFilePath
PathEndLoop(l, endOfFilePath) ==
    IF endOfFilePath = -1 \/ l[endOfFilePath + 1] # " " THEN endOfFilePath
    ELSE LET partialPath == Slice(l, 0, endOfFilePath)
             remainingPath == SliceFrom(l, endOfFilePath + 1)
             nextEndOfPath == SearchChars(remainingPath, {" "} \cup BracketStops)
         IN  IF EndsWithExtension(partialPath) THEN endOfFilePath
             ELSE IF StartsBracketed(remainingPath) THEN endOfFilePath
             ELSE IF nextEndOfPath = -1 THEN -1
             ELSE PathEndLoop(l, endOfFilePath + nextEndOfPath + 1)

\* consumeFilePath: path is None for null
consumeFilePath(l) ==
    IF ~MatchesPathStart(l) THEN [path |-> None, remaining |-> l]
    ELSE LET endOfFilePath == PathEndLoop(l, SearchChars(l, PathStops))
         IN  IF endOfFilePath = -1
             THEN [path |-> Some(l), remaining |-> <<>>]
             ELSE [path |-> Some(Slice(l, 0, endOfFilePath)),
                   remaining |-> SliceFrom(l, endOfFilePath)]

FileEntry(p) == [path |-> p, files |-> <<>>]

\* a pop that does not keep the outermost entry
PopFile_PopsLastEntry(stack) ==
    IF Len(stack) > 0 THEN SubSeq(stack, 1, Len(stack) - 1) ELSE stack

\* a pop at the wrong end of the stack
PopFile_RemovesBottom(stack) ==
    IF Len(stack) > 1 THEN Tail(stack) ELSE stack

\* the ')' branch: what it does to the stack
PopFile(stack) == IF Len(stack) > 1 THEN SubSeq(stack, 1, Len(stack) - 1) ELSE stack

\* one call of parseParensForFilenames up to its recursive call: the
\* arguments of that call, and found = FALSE when the call returns at once
ParensCall(l, open, stack) ==
    LET pos == SearchChars(l, {"(", ")"})
    IN  IF pos = -1
        THEN [found |-> FALSE, token |-> "", line |-> l,
              openParentheses |-> open, fileStack |-> stack, pushed |-> None]
        ELSE LET token == l[pos + 1]
                 rest == SliceFrom(l, pos + 1)
                 filePath == consumeFilePath(rest)
             IN  IF token = "("
                 THEN IF filePath.path # None /\ filePath.path # Some(<<>>)
                      THEN [found |-> TRUE, token |-> token,
                            line |-> filePath.remaining,
                            openParentheses |-> open,
                            fileStack |-> Append(stack, FileEntry(filePath.path[1])),
                            pushed |-> filePath.path]
                      ELSE [found |-> TRUE, token |-> token, line |-> rest,
                            openParentheses |-> open + 1, fileStack |-> stack,
                            pushed |-> None]
                 ELSE IF open > 0
                      THEN [found |-> TRUE, token |-> token, line |-> rest,
                            openParentheses |-> open - 1, fileStack |-> stack,
                            pushed |-> None]
                      ELSE [found |-> TRUE, token |-> token, line |-> rest,
                            openParentheses |-> open,
                            fileStack |-> PopFile(stack), pushed |-> None]

(***************************************************************************)
(* LogLevel and the records (src/logs.ts:11-51)                            *)
(***************************************************************************)
DEBUG == <<"d", "e", "b", "u", "g">>
INFO == <<"i", "n", "f", "o">>
TYPESETTING == <<"t", "y", "p", "e", "s", "e", "t", "t", "i", "n", "g">>
WARNING == <<"w", "a", "r", "n", "i", "n", "g">>
ERROR == <<"e", "r", "r", "o", "r">>

\* Object.entries(LogLevel): <<key, value>> in declaration order
LogLevelEntries ==
    << <<"DEBUG", DEBUG>>, <<"INFO", INFO>>, <<"TYPESETTING", TYPESETTING>>,
       <<"WARNING", WARNING>>, <<"ERROR", ERROR>> >>
LogLevel == {LogLevelEntries[i][2] : i \in 1..Len(LogLevelEntries)}

\* entries.findIndex(([key, value]) => value === level), 0-based, or -1
getLogLevelIndex(level) ==
    LeastOr({i \in 0..(Len(LogLevelEntries) - 1) :
                LogLevelEntries[i + 1][2] = level})

NORMAL == "NORMAL"
ERROR_STATE == "ERROR"

STR_undefined == <<"u", "n", "d", "e", "f", "i", "n", "e", "d">>
\* the string a value takes under += : an undefined left operand reads "undefined"
AsString(opt) == IF opt = None THEN STR_undefined ELSE opt[1]

LF == <<"\n">>

(***************************************************************************)
(* The classifiers (src/logs.ts:234-342)                                   *)
(***************************************************************************)
parseFileLineError(l) ==
    LET c == FileLineColon(l)
        e == DigitRunEnd(l, c + 1)
    IN  [line |-> Some(DigitsValue(Slice(l, c + 1, e), 0)),
         file |-> Some(Slice(l, 0, c)),
         level |-> ERROR,
         message |-> SliceFrom(l, e + 2),
         raw |-> l \o LF,
         content |-> None]

\* parseRunawayArgumentError: the record and the row the two collections leave
parseRunawayArgumentError(l, ls, r) ==
    LET b1 == linesUpToNextWhitespaceLine(ls, r, FALSE)
        b2 == linesUpToNextWhitespaceLine(ls, b1.row, FALSE)
        content == JoinWith(b1.lines, LF) \o LF \o JoinWith(b2.lines, LF)
        raw == content
    IN  [item |-> [line |-> MatchLineNo(raw),
                   file |-> None,
                   level |-> ERROR,
                   message |-> l,
                   content |-> Some(<<>>),
                   raw |-> l \o LF],
         row |-> b2.row]

parseSingleWarningLine(l) ==
    LET warning == LATEX_WARNING_REGEX(l)[1]
    IN  [line |-> LINES_REGEX(warning),
         file |-> None,
         level |-> WARNING,
         message |-> warning,
         raw |-> warning,
         content |-> None]

parseHboxLine(l) ==
    [line |-> LINES_REGEX(l),
     file |-> None,
     level |-> TYPESETTING,
     message |-> l,
     raw |-> l,
     content |-> None]

\* the i flag: letters compare without case
FoldCase(c) ==
    IF c \in Range(Upper)
    THEN Lower[CHOOSE k \in 1..Len(Upper) : Upper[k] = c] ELSE c
FoldAll(s) == [i \in 1..Len(s) |-> FoldCase(s[i])]

RECURSIVE SkipPackageTags(_, _, _)
\* (?:\(name\))* from 0-based position i, greedy: the position after it
SkipPackageTags(l, tag, i) ==
    IF OccursAt(FoldAll(l), FoldAll(tag), i)
    THEN SkipPackageTags(l, tag, i + Len(tag)) ELSE i

\* the source of prefixRegex: "(?:\\(" + packageName + "\\))*[\\s]*(.*)"
PrefixRegexSource(packageName) ==
    <<"(", "?", ":", "\\", "(">> \o packageName
    \o <<"\\", ")", ")", "*", "[", "\\", "s", "]", "*", "(", ".", "*", ")">>

RECURSIVE GroupDepth(_, _, _)
\* the groups left open when the pattern source has been read from 0-based
\* position i on, depth being open before it, or -1 at a ')' that closes
\* nothing: an escaped character and the members of a class open and
\* close no group
GroupDepth(src, i, depth) ==
    IF i >= Len(src) THEN depth
    ELSE IF src[i + 1] = "\\" THEN GroupDepth(src, i + 2, depth)
    ELSE IF src[i + 1] = "["
         THEN LET close == LeastOr({k \in (i + 1)..(Len(src) - 1) :
                                       src[k + 1] = "]" /\ src[k] # "\\"})
              IN  IF close = -1 THEN -1 ELSE GroupDepth(src, close + 1, depth)
    ELSE IF src[i + 1] = "(" THEN GroupDepth(src, i + 1, depth + 1)
    ELSE IF src[i + 1] = ")"
         THEN IF depth = 0 THEN -1 ELSE GroupDepth(src, i + 1, depth - 1)
    ELSE GroupDepth(src, i + 1, depth)

\* new RegExp(src, "i") returns: every group of src is closed and every ')'
\* closes one (the other syntax errors of a pattern need characters that
\* the names drawn here do not hold); otherwise it throws a SyntaxError
RegExpCompiles(src) == GroupDepth(src, 0, 0) = 0

\* the name parseMultipleWarningLine reads from the line: packageMatch?.[1] || ""
PackageNameOf(l) ==
    IF PACKAGE_REGEX(l) = None THEN <<>> ELSE PACKAGE_REGEX(l)[1]

\* currentLine.match(prefixRegex)[1] for the pattern
\* "(?:\\(" + packageName + "\\))*[\\s]*(.*)" with flag i, which matches at
\* position 0 of every line; packageName holds no pattern metacharacter
PrefixRegexGroup(packageName, l) ==
    LET tag == <<"(">> \o packageName \o <<")">>
    IN  SliceFrom(l, SkipSpaces(l, SkipPackageTags(l, tag, 0)))

RECURSIVE WarningContinuation(_, _, _, _, _)
\* the while loop of parseMultipleWarningLine: it ends on false and on ""
WarningContinuation(ls, r, packageName, lineNumber, warningLines) ==
    LET n == nextLine(ls, r)
    IN  IF n.value = None \/ n.value[1] = <<>>
        THEN [row |-> n.row, lineNumber |-> lineNumber,
              warningLines |-> warningLines]
        ELSE LET lineMatch == LINES_REGEX(n.value[1])
             IN  WarningContinuation(ls, n.row, packageName,
                    IF lineMatch # None THEN lineMatch ELSE lineNumber,
                    Append(warningLines, PrefixRegexGroup(packageName, n.value[1])))

\* parseMultipleWarningLine: the record and the row the loop leaves
parseMultipleWarningLine(l, ls, r) ==
    LET packageMatch == PACKAGE_REGEX(l)
        packageName == IF packageMatch = None THEN <<>> ELSE packageMatch[1]
        w == WarningContinuation(ls, r, packageName, LINES_REGEX(l),
                                 <<PACKAGE_WARNING_REGEX(l)[1]>>)
        rawMessage == JoinWith(w.warningLines, <<" ">>)
    IN  [item |-> [line |-> w.lineNumber,
                   file |-> None,
                   level |-> WARNING,
                   message |-> rawMessage,
                   raw |-> rawMessage,
                   content |-> None],
         row |-> w.row]

(***************************************************************************)
(* parseLog (src/logs.ts:128-232), one action per branch of the loop       *)
(***************************************************************************)
\* a chain whose first branch does not except the closing banner
Classify_BannerIsFatal(l) ==
    IF CharAt(l, 0) = <<"!">> THEN "fatal"
    ELSE IF FILE_LINE_ERROR_REGEX(l) THEN "fileline"
    ELSE IF MatchesRunaway(l) THEN "runaway"
    ELSE IF LATEX_WARNING_REGEX(l) # None THEN "latex"
    ELSE IF HBOX_WARNING_REGEX(l) THEN "hbox"
    ELSE IF PACKAGE_WARNING_REGEX(l) # None THEN "package"
    ELSE "default"

\* the branch of the if/else-if chain that takes the line
Classify(l) ==
    IF CharAt(l, 0) = <<"!">> /\ l # STR_FatalBanner THEN "fatal"
    ELSE IF FILE_LINE_ERROR_REGEX(l) THEN "fileline"
    ELSE IF MatchesRunaway(l) THEN "runaway"
    ELSE IF LATEX_WARNING_REGEX(l) # None THEN "latex"
    ELSE IF HBOX_WARNING_REGEX(l) THEN "hbox"
    ELSE IF PACKAGE_WARNING_REGEX(l) # None THEN "package"
    ELSE "default"

\* the path on top of the file stack, if any
TopPath(stack) == IF Len(stack) = 0 THEN None ELSE Some(stack[Len(stack)].path)

\* history kept with each record: the row and text of its triggering line,
\* and the top of the file stack when that line was dispatched
Trigger(r, l) == [row |-> r, line |-> l, top |-> TopPath(fileStack)]

\* the condition of the while loop holds and the line goes to branch kind
Dispatches(kind) ==
    /\ pc = "loop"
    /\ state = NORMAL
    /\ nextLine(lines, row).value # None
    /\ Classify(nextLine(lines, row).value[1]) = kind

ReturnEmpty ==
    /\ pc = "parseLog"
    /\ Len(logEntries) = 0
    /\ pc' = "done"
    /\ UNCHANGED <<wrappedIn, separators, logEntries, lines, row, state,
                   logItem, logItems, currentFilePath, fileStack, scanLine,
                   openParentheses, trig, marks, logLevel, impl, logs,
                   files, source, tempDir, pdf, tmp>>

CreateLog ==
    /\ pc = "parseLog"
    /\ Len(logEntries) # 0
    /\ lines' = createLogText(logEntries).lines
    /\ row' = createLogText(logEntries).row
    /\ pc' = "loop"
    /\ UNCHANGED <<wrappedIn, separators, logEntries, state, logItem,
                   logItems, currentFilePath, fileStack, scanLine,
                   openParentheses, trig, marks, logLevel, impl, logs,
                   files, source, tempDir, pdf, tmp>>

DispatchFatal ==
    /\ Dispatches("fatal")
    /\ LET n == nextLine(lines, row)
           currentLine == n.value[1]
       IN  /\ row' = n.row
           /\ state' = ERROR_STATE
           /\ logItem' = Some([level |-> ERROR,
                               message |-> SliceFrom(currentLine, 2),
                               content |-> Some(<<>>),
                               raw |-> currentLine \o LF,
                               file |-> currentFilePath,
                               line |-> None])
           /\ trig' = Append(trig, Trigger(n.row, currentLine))
    /\ pc' = "capture"
    /\ UNCHANGED <<wrappedIn, separators, logEntries, lines, logItems,
                   currentFilePath, fileStack, scanLine, openParentheses,
                   marks, logLevel, impl, logs,
                   files, source, tempDir, pdf, tmp>>

DispatchFileLine ==
    /\ Dispatches("fileline")
    /\ LET n == nextLine(lines, row)
           currentLine == n.value[1]
       IN  /\ row' = n.row
           /\ state' = ERROR_STATE
           /\ logItem' = Some([parseFileLineError(currentLine)
                                  EXCEPT !.file = currentFilePath])
           /\ trig' = Append(trig, Trigger(n.row, currentLine))
    /\ pc' = "capture"
    /\ UNCHANGED <<wrappedIn, separators, logEntries, lines, logItems,
                   currentFilePath, fileStack, scanLine, openParentheses,
                   marks, logLevel, impl, logs,
                   files, source, tempDir, pdf, tmp>>

\* the block "if (state === State.ERROR && logItem)" of the same iteration;
\* each value of the block is computed once and named
ErrorCapture ==
    /\ pc = "capture"
    /\ state = ERROR_STATE
    /\ logItem # None
    /\ \E b1 \in {linesUpToNextMatchingLine(lines, row, "context", FALSE, <<>>)} :
       \E b2 \in {linesUpToNextWhitespaceLine(lines, b1.row, TRUE)} :
       \E b3 \in {linesUpToNextWhitespaceLine(lines, b2.row, TRUE)} :
       \E content \in {AsString(logItem[1].content) \o JoinWith(b1.lines, LF)
                        \o LF \o JoinWith(b2.lines, LF)
                        \o LF \o JoinWith(b3.lines, LF)} :
       \E raw \in {logItem[1].raw \o content} :
       \E lineNo \in {MatchLineNo(raw)} :
           /\ row' = b3.row
           /\ logItems' = Append(logItems,
                 [logItem[1] EXCEPT
                     !.content = Some(content),
                     !.raw = raw,
                     !.line = IF lineNo # None /\ @ = None THEN lineNo ELSE @])
    /\ logItem' = None
    /\ state' = NORMAL
    /\ pc' = "loop"
    /\ UNCHANGED <<wrappedIn, separators, logEntries, lines, currentFilePath,
                   fileStack, scanLine, openParentheses, trig, marks,
                   logLevel, impl, logs,
                   files, source, tempDir, pdf, tmp>>

DispatchRunaway ==
    /\ Dispatches("runaway")
    /\ LET n == nextLine(lines, row)
           currentLine == n.value[1]
           res == parseRunawayArgumentError(currentLine, lines, n.row)
       IN  /\ row' = res.row
           /\ logItems' = Append(logItems,
                                 [res.item EXCEPT !.file = currentFilePath])
           /\ trig' = Append(trig, Trigger(n.row, currentLine))
    /\ UNCHANGED <<wrappedIn, separators, logEntries, lines, state, logItem,
                   currentFilePath, fileStack, scanLine, openParentheses, pc,
                   marks, logLevel, impl, logs,
                   files, source, tempDir, pdf, tmp>>

DispatchLatexWarning ==
    /\ Dispatches("latex")
    /\ LET n == nextLine(lines, row)
           currentLine == n.value[1]
       IN  /\ row' = n.row
           /\ logItems' = Append(logItems,
                 [parseSingleWarningLine(currentLine)
                     EXCEPT !.file = currentFilePath])
           /\ trig' = Append(trig, Trigger(n.row, currentLine))
    /\ UNCHANGED <<wrappedIn, separators, logEntries, lines, state, logItem,
                   currentFilePath, fileStack, scanLine, openParentheses, pc,
                   marks, logLevel, impl, logs,
                   files, source, tempDir, pdf, tmp>>

\* a branch that drops a record equal to one already collected
DispatchHbox_SkipsDuplicate ==
    /\ Dispatches("hbox")
    /\ LET n == nextLine(lines, row)
           currentLine == n.value[1]
           item == [parseHboxLine(currentLine) EXCEPT !.file = currentFilePath]
           seen == \E i \in 1..Len(logItems) : logItems[i] = item
       IN  /\ row' = n.row
           /\ logItems' = IF seen THEN logItems ELSE Append(logItems, item)
           /\ trig' = IF seen THEN trig
                      ELSE Append(trig, Trigger(n.row, currentLine))
    /\ UNCHANGED <<wrappedIn, separators, logEntries, lines, state, logItem,
                   currentFilePath, fileStack, scanLine, openParentheses, pc,
                   marks, logLevel, impl, logs,
                   files, source, tempDir, pdf, tmp>>

DispatchHbox ==
    /\ Dispatches("hbox")
    /\ LET n == nextLine(lines, row)
           currentLine == n.value[1]
       IN  /\ row' = n.row
           /\ logItems' = Append(logItems,
                 [parseHboxLine(currentLine) EXCEPT !.file = currentFilePath])
           /\ trig' = Append(trig, Trigger(n.row, currentLine))
    /\ UNCHANGED <<wrappedIn, separators, logEntries, lines, state, logItem,
                   currentFilePath, fileStack, scanLine, openParentheses, pc,
                   marks, logLevel, impl, logs,
                   files, source, tempDir, pdf, tmp>>

\* existsSync(logfile) is false: parseLog throws before it reads the log
LogFileNotFound ==
    /\ pc = "parseLog"
    /\ pc' = "notFound"
    /\ UNCHANGED <<wrappedIn, separators, logEntries, lines, row, state,
                   logItem, logItems, currentFilePath, fileStack, scanLine,
                   openParentheses, trig, marks, logLevel, impl, logs,
                   files, source, tempDir, pdf, tmp>>

\* the package branch when new RegExp throws: the SyntaxError leaves
\* parseMultipleWarningLine and parseLog, which catch nothing
PackageWarningThrows ==
    /\ Dispatches("package")
    /\ ~RegExpCompiles(PrefixRegexSource(
            PackageNameOf(nextLine(lines, row).value[1])))
    /\ row' = nextLine(lines, row).row
    /\ pc' = "syntaxError"
    /\ UNCHANGED <<wrappedIn, separators, logEntries, lines, state, logItem,
                   logItems, currentFilePath, fileStack, scanLine,
                   openParentheses, trig, marks, logLevel, impl, logs,
                   files, source, tempDir, pdf, tmp>>

DispatchPackageWarning ==
    /\ Dispatches("package")
    /\ RegExpCompiles(PrefixRegexSource(
           PackageNameOf(nextLine(lines, row).value[1])))
    /\ LET n == nextLine(lines, row)
           currentLine == n.value[1]
           res == parseMultipleWarningLine(currentLine, lines, n.row)
       IN  /\ row' = res.row
           /\ logItems' = Append(logItems,
                                 [res.item EXCEPT !.file = currentFilePath])
           /\ trig' = Append(trig, Trigger(n.row, currentLine))
    /\ UNCHANGED <<wrappedIn, separators, logEntries, lines, state, logItem,
                   currentFilePath, fileStack, scanLine, openParentheses, pc,
                   marks, logLevel, impl, logs,
                   files, source, tempDir, pdf, tmp>>

\* the else branch: the call parseParensForFilenames(currentLine, 0, ...)
DispatchDefault ==
    /\ Dispatches("default")
    /\ LET n == nextLine(lines, row)
       IN  /\ row' = n.row
           /\ scanLine' = n.value[1]
    /\ openParentheses' = 0
    /\ pc' = "parens"
    /\ UNCHANGED <<wrappedIn, separators, logEntries, lines, state, logItem,
                   logItems, currentFilePath, fileStack, trig, marks,
                   logLevel, impl, logs,
                   files, source, tempDir, pdf, tmp>>

\* a call of parseParensForFilenames that finds a parenthesis and recurses
ParensStep ==
    /\ pc = "parens"
    /\ LET c == ParensCall(scanLine, openParentheses, fileStack)
       IN  /\ c.found
           /\ scanLine' = c.line
           /\ openParentheses' = c.openParentheses
           /\ fileStack' = c.fileStack
           /\ marks' = Append(marks, [token |-> c.token, pushed |-> c.pushed,
                                      row |-> row])
    /\ UNCHANGED <<wrappedIn, separators, logEntries, lines, row, state,
                   logItem, logItems, currentFilePath, pc, trig, logLevel,
                   impl, logs,
                   files, source, tempDir, pdf, tmp>>

\* a return that reads the bottom of the stack instead of its top
ParensReturn_ReadsBottom ==
    /\ pc = "parens"
    /\ ~ParensCall(scanLine, openParentheses, fileStack).found
    /\ currentFilePath' =
          IF Len(fileStack) > 0 THEN Some(fileStack[1].path)
          ELSE currentFilePath
    /\ pc' = "loop"
    /\ UNCHANGED <<wrappedIn, separators, logEntries, lines, row, state,
                   logItem, logItems, fileStack, scanLine, openParentheses,
                   trig, marks, logLevel, impl, logs,
                   files, source, tempDir, pdf, tmp>>

\* the call that finds none: the recursion returns, and parseLog reads the
\* top of the stack into currentFilePath
ParensReturn ==
    /\ pc = "parens"
    /\ ~ParensCall(scanLine, openParentheses, fileStack).found
    /\ currentFilePath' =
          IF Len(fileStack) > 0 THEN Some(fileStack[Len(fileStack)].path)
          ELSE currentFilePath
    /\ pc' = "loop"
    /\ UNCHANGED <<wrappedIn, separators, logEntries, lines, row, state,
                   logItem, logItems, fileStack, scanLine, openParentheses,
                   trig, marks, logLevel, impl, logs,
                   files, source, tempDir, pdf, tmp>>

\* nextLine returns false: the while loop ends and parseLog returns logItems
ReturnLogItems ==
    /\ pc = "loop"
    /\ nextLine(lines, row).value = None
    /\ row' = nextLine(lines, row).row
    /\ pc' = "done"
    /\ UNCHANGED <<wrappedIn, separators, logEntries, lines, state, logItem,
                   logItems, currentFilePath, fileStack, scanLine,
                   openParentheses, trig, marks, logLevel, impl, logs,
                   files, source, tempDir, pdf, tmp>>

(***************************************************************************)
(* render: the filter on parseLog's result                                 *)
(***************************************************************************)
\* the code unit of a lower-case letter, up to a constant
CodeUnit(c) == CHOOSE k \in 1..Len(Lower) : Lower[k] = c

RECURSIVE StringGE(_, _)
\* a >= b on strings: the comparison by code units from the left
StringGE(a, b) ==
    IF Len(b) = 0 THEN TRUE
    ELSE IF Len(a) = 0 THEN FALSE
    ELSE IF a[1] = b[1] THEN StringGE(Tail(a), Tail(b))
    ELSE CodeUnit(a[1]) > CodeUnit(b[1])

\* options?.logLevel || LogLevel.INFO
EffectiveLogLevel(opt) == IF opt = None THEN INFO ELSE opt[1]

\* src/compiler.ts:212-214
FilterByIndex(items, level) ==
    LET Keep(log) == getLogLevelIndex(log.level) >= getLogLevelIndex(level)
    IN  SelectSeq(items, Keep)

\* src/unnamed/part_002:105-107
FilterByValue(items, level) ==
    LET Keep(log) == StringGE(log.level, level)
    IN  SelectSeq(items, Keep)

\* a path: a directory, and the name and extension of a file in it
Path(dir, name, ext) == [dir |-> dir, name |-> name, ext |-> ext]

\* the names under which files are handed to render, the source among them
FileNames == {Path("", "main", ".tex"), Path("", "fig", ".tex")}

\* the names mkdtempSync can give a directory made from the prefix "latex-"
TempNames == {"latex-a", "latex-b"}

\* join(tempDir, filename)
JoinTemp(dir, file) == Path(dir, file.name, file.ext)

\* rmSync(tempDir, { recursive: true })
rmSync(dirs, dir) == dirs \ {dir}

\* options?.passover || 2
Passover(opt) == IF opt = None \/ opt[1] = 0 THEN 2 ELSE opt[1]

\* the values of options.passover tried
PassoverOptions == {None, Some(0), Some(1), Some(2)}

\* compile with no args.outputDirectory and no args.jobname: the path of the
\* PDF is the name of the source file in its directory, with ".pdf"
compile(src) == Path(src.dir, src.name, ".pdf")

\* render(src, files, opts) of src/compiler.ts, from the call to the check
\* of the source file: a directory is made under os.tmpdir(), every file is
\* written into it, and a source that is not among them throws
RenderBuffer ==
    /\ pc = "render"
    /\ \E src \in FileNames, fs \in SUBSET FileNames,
          dir \in TempNames \ tmp :
          /\ files' = Some(fs)
          /\ tempDir' = Some(dir)
          /\ tmp' = tmp \cup {dir}
          /\ source' = JoinTemp(dir, src)
          /\ pc' = IF src \in fs THEN "compile" ELSE "sourceNotFound"
    /\ UNCHANGED <<wrappedIn, separators, logEntries, lines, row, state,
                   logItem, logItems, currentFilePath, fileStack, scanLine,
                   openParentheses, trig, marks, logLevel, impl, logs, pdf>>

\* the passes of the compiler: pdf holds what the last pass that ended
\* without an exception returned; an exception ends the passes and is dropped
Compile ==
    /\ pc = "compile"
    /\ \E opt \in PassoverOptions :
          \E passes \in 0..Passover(opt) :
             pdf' = IF passes = 0 THEN None ELSE Some(compile(source))
    /\ pc' = "parseLog"
    /\ UNCHANGED <<wrappedIn, separators, logEntries, lines, row, state,
                   logItem, logItems, currentFilePath, fileStack, scanLine,
                   openParentheses, trig, marks, logLevel, impl, logs, files,
                   source, tempDir, tmp>>

\* render of src/compiler.ts, from parseLog's return on: the filter, and the
\* way out. Without a temporary directory the path is returned; with one,
\* the directory is removed before either return, and reading a PDF that is
\* not at the path compile returned throws before it is
Render ==
    /\ pc = "done"
    /\ \E opt \in {None} \cup {Some(v) : v \in LogLevel} :
          /\ logLevel' = opt
          /\ logs' = FilterByIndex(logItems, EffectiveLogLevel(opt))
    /\ impl' = "compiler.ts"
    /\ IF tempDir = None
          THEN pc' = "returned" /\ tmp' = tmp
       ELSE IF pdf = None
          THEN pc' = "returned" /\ tmp' = rmSync(tmp, tempDir[1])
       ELSE \E readable \in BOOLEAN :
               IF readable
                  THEN pc' = "returned" /\ tmp' = rmSync(tmp, tempDir[1])
                  ELSE pc' = "readFailed" /\ tmp' = tmp
    /\ UNCHANGED <<wrappedIn, separators, logEntries, lines, row, state,
                   logItem, logItems, currentFilePath, fileStack, scanLine,
                   openParentheses, trig, marks, files, source, tempDir, pdf>>

\* render of src/unnamed/part_002, from parseLog's return on
RenderLocal ==
    /\ pc = "done"
    /\ \E opt \in {None} \cup {Some(v) : v \in LogLevel} :
          /\ logLevel' = opt
          /\ logs' = FilterByValue(logItems, EffectiveLogLevel(opt))
    /\ impl' = "part_002"
    /\ pc' = "returned"
    /\ UNCHANGED <<wrappedIn, separators, logEntries, lines, row, state,
                   logItem, logItems, currentFilePath, fileStack, scanLine,
                   openParentheses, trig, marks, files, source, tempDir, pdf,
                   tmp>>

(***************************************************************************)
(* The logs checked                                                        *)
(***************************************************************************)
MaxLines == 4

L_Fatal == <<"!", " ", "A">>
L_Fatal2 == <<"!", " ", "B">>
L_FileLine == <<".", "/", "a", ":", "1", ":", " ", "M">>
L_Context == <<"l", ".", "7">>
L_Blank == <<>>
L_Runaway == <<"R", "u", "n", "a", "w", "a", "y", " ", "a", "r", "g", "u", "m", "e", "n", "t", "?">>
L_LatexEmpty == <<"L", "a", "T", "e", "X", " ", "W", "a", "r", "n", "i", "n", "g", ":", " ">>
L_Hbox == <<"O", "v", "e", "r", "f", "u", "l", "l", " ", "\\", "h", "b", "o", "x", " ", "(", "1", "p", "t", ")", " ", "a", "t", " ", "l", "i", "n", "e", "s", " ", "3", "-", "-", "5">>
L_Package == <<"P", "a", "c", "k", "a", "g", "e", " ", "p", " ", "W", "a", "r", "n", "i", "n", "g", ":", " ", "m">>
L_Open == <<"(", "/", "t", "/", "a", ".", "x">>
L_Open2 == <<"(", "/", "t", "/", "b", ".", "x">>
L_Close == <<")">>

LinePool == {L_Fatal, L_Fatal2, L_FileLine, L_Context, L_Blank, L_Runaway, L_LatexEmpty, L_Hbox, L_Package, L_Open, L_Open2, L_Close}

RECURSIVE SeqsOfLen(_, _)
SeqsOfLen(S, n) ==
    IF n = 0 THEN {<<>>}
    ELSE {Append(q, x) : q \in SeqsOfLen(S, n - 1), x \in S}
SeqsUpTo(S, n) == UNION {SeqsOfLen(S, k) : k \in 1..n}

RECURSIVE WriteLines(_, _)
\* the text of a log: each physical line, and its terminator between two
WriteLines(ls, seps) ==
    IF Len(ls) = 1 THEN ls[1]
    ELSE ls[1] \o seps[1] \o WriteLines(Tail(ls), Tail(seps))

InitParse ==
    /\ lines = <<>>
    /\ row = 0
    /\ state = NORMAL
    /\ logItem = None
    /\ logItems = <<>>
    /\ currentFilePath = None
    /\ fileStack = <<>>
    /\ scanLine = <<>>
    /\ openParentheses = 0
    /\ pc = "parseLog"
    /\ trig = <<>>
    /\ marks = <<>>
    /\ logLevel = None
    /\ impl = ""
    /\ logs = <<>>
    /\ files = None
    /\ source = Path("", "", "")
    /\ tempDir = None
    /\ pdf = None
    /\ tmp = {}

Init ==
    /\ wrappedIn \in SeqsUpTo(LinePool, MaxLines)
    /\ separators = [i \in 1..(Len(wrappedIn) - 1) |-> LF]
    /\ logEntries = WriteLines(wrappedIn, separators)
    /\ InitParse

Next ==
    \/ ReturnEmpty
    \/ CreateLog
    \/ DispatchFatal
    \/ DispatchFileLine
    \/ ErrorCapture
    \/ DispatchRunaway
    \/ DispatchLatexWarning
    \/ DispatchHbox
    \/ DispatchPackageWarning
    \/ DispatchDefault
    \/ ParensStep
    \/ ParensReturn
    \/ ReturnLogItems

Spec == Init /\ [][Next]_vars

(***************************************************************************)
(* render over the logs of at most MaxRenderLines lines                    *)
(***************************************************************************)
MaxRenderLines == 3

InitRender ==
    /\ wrappedIn \in SeqsUpTo(LinePool, MaxRenderLines)
    /\ separators = [i \in 1..(Len(wrappedIn) - 1) |-> LF]
    /\ logEntries = WriteLines(wrappedIn, separators)
    /\ InitParse

NextRender ==
    \/ Next
    \/ Render
    \/ RenderLocal

SpecRender == InitRender /\ [][NextRender]_vars

(***************************************************************************)
(* Logs of file markers and of one line per classifier, for the file each  *)
(* record carries                                                          *)
(***************************************************************************)
MaxFileLines == 4

FilePool == {L_Fatal, L_FileLine, L_Runaway, L_LatexEmpty, L_Hbox, L_Package,
             L_Open, L_Open2, L_Close}

InitFiles ==
    /\ wrappedIn \in SeqsUpTo(FilePool, MaxFileLines)
    /\ separators = [i \in 1..(Len(wrappedIn) - 1) |-> LF]
    /\ logEntries = WriteLines(wrappedIn, separators)
    /\ InitParse

NextFiles ==
    \/ CreateLog
    \/ DispatchFatal
    \/ DispatchFileLine
    \/ ErrorCapture
    \/ DispatchRunaway
    \/ DispatchLatexWarning
    \/ DispatchHbox
    \/ DispatchPackageWarning
    \/ DispatchDefault
    \/ ParensStep
    \/ ParensReturn
    \/ ReturnLogItems

SpecFiles == InitFiles /\ [][NextFiles]_vars

(***************************************************************************)
(* Logs of file markers, for the tracker                                   *)
(***************************************************************************)
MaxTrackLines == 4

T_Nested == <<"(", "/", "t", "/", "a", ".", "x", " ", "(", "/", "t", "/", "b", ".", "x", " ", ".", ".", ".", " ", ")", " ", ".", ".", ".", " ", ")">>
T_OpenAB == <<"(", "/", "t", "/", "a", ".", "x", " ", "(", "/", "t", "/", "b", ".", "x">>
T_CloseClose == <<")", " ", ")">>
T_OpenA == <<"(", "/", "t", "/", "a", ".", "x">>
T_Close == <<")">>
T_PlainOpen == <<"(", "x">>
T_Plain == <<"(", "x", ")">>

TrackPool == {T_Nested, T_OpenAB, T_CloseClose, T_OpenA, T_Close, T_PlainOpen, T_Plain}

InitTracker ==
    /\ wrappedIn \in SeqsUpTo(TrackPool, MaxTrackLines)
    /\ separators = [i \in 1..(Len(wrappedIn) - 1) |-> LF]
    /\ logEntries = WriteLines(wrappedIn, separators)
    /\ InitParse

NextTracker ==
    \/ CreateLog
    \/ DispatchDefault
    \/ ParensStep
    \/ ParensReturn
    \/ ReturnLogItems

SpecTracker == InitTracker /\ [][NextTracker]_vars

(***************************************************************************)
(* Log texts with lines at the wrap width, for createLogText               *)
(***************************************************************************)
MaxPhysical == 3

Repeat(c, n) == [i \in 1..n |-> c]

W_Full == Repeat("a", LOG_WRAP_LIMIT)
W_FullDots == Repeat("a", LOG_WRAP_LIMIT - 3) \o <<".", ".", ".">>
W_Short == Repeat("a", LOG_WRAP_LIMIT - 1)
W_Long == Repeat("a", LOG_WRAP_LIMIT + 1)
W_Bang == <<"!", " ", "E">>
W_Text == <<"b">>
W_Empty == <<>>

WrapPool == {W_Full, W_FullDots, W_Short, W_Long, W_Bang, W_Text, W_Empty}
LineEnds == {<<"\n">>, <<"\r">>, <<"\r", "\n">>}

\* a "\r" terminator, an empty line and a "\n" terminator read as one "\r\n":
\* the lines of such a text are not the ones it was written from
ReadsAsWritten(ls, seps) ==
    \A i \in 1..(Len(seps) - 1) :
        ~(seps[i] = <<"\r">> /\ ls[i + 1] = <<>> /\ seps[i + 1] = <<"\n">>)

InitWrap ==
    /\ wrappedIn \in SeqsUpTo(WrapPool, MaxPhysical)
    /\ separators \in [1..(Len(wrappedIn) - 1) -> LineEnds]
    /\ ReadsAsWritten(wrappedIn, separators)
    /\ logEntries = WriteLines(wrappedIn, separators)
    /\ InitParse

NextWrap ==
    \/ ReturnEmpty
    \/ CreateLog

SpecWrap == InitWrap /\ [][NextWrap]_vars

(***************************************************************************)
(* Logs of single-line warnings, with and without a line number            *)
(***************************************************************************)
MaxWarnLines == 4

WL_Ref == STR_LaTeX \o <<" ">> \o STR_WarningColon \o <<" ", "R", " ", "o", "n", " ", "i", "n", "p", "u", "t", " ", "l", "i", "n", "e", " ", "4", "2", ".">>
WL_Two == STR_LaTeX \o STR_Font \o <<" ">> \o STR_WarningColon \o <<" ", "l", "i", "n", "e", " ", "4", " ", "l", "i", "n", "e", "s", " ", "1", "2">>
WL_None == STR_LaTeX \o <<"3", " ">> \o STR_WarningColon \o <<" ", "l", "i", "n", "e", " ", "n", "o">>
WL_Vbox == STR_Under \o STR_Full \o <<" ", "\\", "v">> \o STR_Box

WarnPool == {WL_Ref, WL_Two, WL_None, L_LatexEmpty, L_Hbox, WL_Vbox, T_Plain}

InitWarn ==
    /\ wrappedIn \in SeqsUpTo(WarnPool, MaxWarnLines)
    /\ separators = [i \in 1..(Len(wrappedIn) - 1) |-> LF]
    /\ logEntries = WriteLines(wrappedIn, separators)
    /\ InitParse

NextWarn ==
    \/ CreateLog
    \/ DispatchLatexWarning
    \/ DispatchHbox
    \/ DispatchDefault
    \/ ParensStep
    \/ ParensReturn
    \/ ReturnLogItems

SpecWarn == InitWarn /\ [][NextWarn]_vars

(***************************************************************************)
(* Logs of error lines with their context, blank lines and other records,  *)
(* for the error capture and the cursor                                    *)
(***************************************************************************)
MaxCaptureLines == 4

CapturePool == {L_Fatal, L_FileLine, L_Context, L_Blank, L_Hbox, L_Runaway,
                L_Package, T_Plain}

InitCapture ==
    /\ wrappedIn \in SeqsUpTo(CapturePool, MaxCaptureLines)
    /\ separators = [i \in 1..(Len(wrappedIn) - 1) |-> LF]
    /\ logEntries = WriteLines(wrappedIn, separators)
    /\ InitParse

NextCapture ==
    \/ ReturnEmpty
    \/ CreateLog
    \/ DispatchFatal
    \/ DispatchFileLine
    \/ ErrorCapture
    \/ DispatchRunaway
    \/ DispatchHbox
    \/ DispatchPackageWarning
    \/ DispatchDefault
    \/ ParensStep
    \/ ParensReturn
    \/ ReturnLogItems

SpecCapture == InitCapture /\ [][NextCapture]_vars

(***************************************************************************)
(* Logs of lines that no classifier takes, and of one that a classifier    *)
(* takes                                                                   *)
(***************************************************************************)
MaxNoiseLines == 4

N_Spaces == <<" ", " ">>
N_Text == <<"p", "d", "f", "T", "e", "X">>
N_NearMiss == STR_LaTeX \o <<" ">> \o STR_WarningColon

NoiseLines == {L_Blank, N_Spaces, N_Text, N_NearMiss, STR_FatalBanner,
               T_OpenA, T_Close}
NoisePool == NoiseLines \cup {L_Fatal}

InitNoise ==
    /\ wrappedIn \in SeqsUpTo(NoisePool, MaxNoiseLines)
    /\ separators = [i \in 1..(Len(wrappedIn) - 1) |-> LF]
    /\ logEntries = WriteLines(wrappedIn, separators)
    /\ InitParse

NextNoise ==
    \/ ReturnEmpty
    \/ CreateLog
    \/ DispatchFatal
    \/ ErrorCapture
    \/ DispatchDefault
    \/ ParensStep
    \/ ParensReturn
    \/ ReturnLogItems

SpecNoise == InitNoise /\ [][NextNoise]_vars

(***************************************************************************)
(* Logs of package warnings whose name holds a parenthesis, and the log    *)
(* file that does not exist                                                *)
(***************************************************************************)
MaxNameLines == 3

P_Open == STR_Package \o <<" ", "a", "(", "b", " ">> \o STR_WarningColon \o <<" ", "m">>
P_Close == STR_Class \o <<" ", "a", ")", "b", " ">> \o STR_WarningColon \o <<" ", "m">>
P_Continued == <<"(", "p", ")", " ", " ", "c">>

NamePool == {L_Package, P_Open, P_Close, P_Continued, N_Text, L_Blank}

InitNames ==
    /\ wrappedIn \in SeqsUpTo(NamePool, MaxNameLines)
    /\ separators = [i \in 1..(Len(wrappedIn) - 1) |-> LF]
    /\ logEntries = WriteLines(wrappedIn, separators)
    /\ InitParse

NextNames ==
    \/ LogFileNotFound
    \/ ReturnEmpty
    \/ CreateLog
    \/ DispatchPackageWarning
    \/ PackageWarningThrows
    \/ DispatchDefault
    \/ ParensStep
    \/ ParensReturn
    \/ ReturnLogItems

SpecNames == InitNames /\ [][NextNames]_vars

(***************************************************************************)
(* Logs of error lines, context lines, blank lines and parentheses, run to *)
(* the end: parseLog is synchronous code, once called it runs on until it  *)
(* returns or throws                                                       *)
(***************************************************************************)
MaxRunLines == 4

RunPool == {L_Fatal, L_FileLine, L_Context, L_Blank, T_Plain}

InitRun ==
    /\ wrappedIn \in SeqsUpTo(RunPool, MaxRunLines)
    /\ separators = [i \in 1..(Len(wrappedIn) - 1) |-> LF]
    /\ logEntries = WriteLines(wrappedIn, separators)
    /\ InitParse

NextRun ==
    \/ ReturnEmpty
    \/ CreateLog
    \/ DispatchFatal
    \/ DispatchFileLine
    \/ ErrorCapture
    \/ DispatchDefault
    \/ ParensStep
    \/ ParensReturn
    \/ ReturnLogItems

\* the steps of the main loop, which run on once parseLog has entered it
NextLoop ==
    \/ DispatchFatal
    \/ DispatchFileLine
    \/ ErrorCapture
    \/ DispatchDefault
    \/ ParensStep
    \/ ParensReturn
    \/ ReturnLogItems

SpecRun == InitRun /\ [][NextRun]_vars /\ WF_vars(NextLoop)

(***************************************************************************)
(* Properties                                                              *)
(***************************************************************************)
\* p occurs somewhere in s
Contains(s, p) == \E i \in 0..Len(s) : OccursAt(s, p, i)

\* the order Debug < Info < Typesetting < Warning < Error of the levels
LevelRank(level) ==
    CASE level = DEBUG -> 0
      [] level = INFO -> 1
      [] level = TYPESETTING -> 2
      [] level = WARNING -> 3
      [] level = ERROR -> 4

\* the records of s at or above level, in their order in s
AtOrAbove(s, level) ==
    LET Keep(log) == LevelRank(log.level) >= LevelRank(level)
    IN  SelectSeq(s, Keep)

\* C1: whatever the minimum level L (Info when none is given), the logs
\* render returns are exactly the parsed records whose level is at or above
\* L in the order Debug < Info < Typesetting < Warning < Error, in their
\* original order; an Error record is returned for every L.
C1_RenderKeepsLevelsAtOrAbove ==
    pc = "returned" =>
        /\ logs = AtOrAbove(logItems, EffectiveLogLevel(logLevel))
        /\ \A i \in 1..Len(logItems) :
              logItems[i].level = ERROR =>
                 \E j \in 1..Len(logs) : logs[j] = logItems[i]

\* the records whose triggering line is logical line r (0-based)
RecordsOfRow(r) == {i \in 1..Len(trig) : trig[i].row = r}

\* C2: a logical line <path>:<N>: <message> whose path starts with '.' or
\* '/' gives exactly one record, with level Error, line N, that message,
\* and file = the path written on the line (here the line "./a:1: M").
C2_FileLineErrorRecord ==
    \A i \in 1..Len(logItems) :
        trig[i].line = L_FileLine =>
            /\ Cardinality(RecordsOfRow(trig[i].row)) = 1
            /\ logItems[i].level = ERROR
            /\ logItems[i].line = Some(1)
            /\ logItems[i].message = <<"M">>
            /\ logItems[i].file = Some(<<".", "/", "a">>)

\* C3: when a fatal-error line is directly followed by a second one, the
\* first record's content, and its raw after the triggering line, do not
\* contain the second line, and the second line triggers its own record.
C3_SecondFatalLineStartsOwnRecord ==
    pc = "done" =>
        \A i \in 1..Len(logItems) :
            LET r == trig[i].row
            IN  ( /\ Classify(trig[i].line) = "fatal"
                  /\ r + 1 < Len(lines)
                  /\ MatchesFatalMarker(lines[r + 2]) )
                => /\ RecordsOfRow(r + 1) # {}
                   /\ ~Contains(AsString(logItems[i].content), lines[r + 2])
                   /\ ~Contains(SliceFrom(logItems[i].raw, Len(trig[i].line)),
                                lines[r + 2])

\* C4: on a freshly built cursor the first advance returns logical line 0,
\* so a first line that matches a classifier triggers a record.
C4_FirstAdvanceReturnsFirstLine ==
    /\ (pc = "loop" /\ row = 0) =>
          nextLine(lines, row).value = Some(lines[1])
    /\ (pc = "done" /\ Len(logEntries) > 0 /\ Classify(lines[1]) # "default")
          => RecordsOfRow(0) # {}

\* C5: every record's raw contains the complete triggering line followed
\* by a line separator, whichever classifier produced it.
C5_RawHoldsTriggeringLine ==
    \A i \in 1..Len(logItems) :
        Contains(logItems[i].raw, trig[i].line \o LF)

\* C6: every record has one of the five levels and a raw of length at
\* least one, also for a warning line with nothing after its prefix.
C6_LevelEnumeratedAndRawNonEmpty ==
    \A i \in 1..Len(logItems) :
        /\ logItems[i].level \in LogLevel
        /\ Len(logItems[i].raw) >= 1

\* C7: every record's file is the path on top of the file stack when its
\* triggering line was dispatched (absent when no file was opened yet), and
\* currentFilePath changes only when the tracker returns from a line.
C7_FileIsTopOfStackAtDispatch ==
    /\ [](\A i \in 1..Len(logItems) : logItems[i].file = trig[i].top)
    /\ [](logItem # None => logItem[1].file = trig[Len(trig)].top)
    /\ [][currentFilePath' # currentFilePath
            => pc = "parens" /\ pc' = "loop"
               /\ currentFilePath' = TopPath(fileStack)]_vars

\* C7 happens: a record triggered while /t/b.x is open inside /t/a.x
C7_Witness ==
    /\ Len(fileStack) = 2
    /\ \E i \in 1..Len(logItems) :
          /\ logItems[i].file = Some(fileStack[2].path)
          /\ logItems[i].file # Some(fileStack[1].path)

\* C8: once a FileEntry has been pushed the stack never becomes empty, its
\* bottom entry stays, the current file is defined whenever the tracker has
\* returned, and a ')' met with no ordinary '(' open and at most one entry
\* on the stack changes neither the stack nor the current file.
C8_BottomEntryNeverPopped ==
    /\ [][Len(fileStack) > 0 =>
            Len(fileStack') > 0 /\ fileStack'[1] = fileStack[1]]_vars
    /\ [][currentFilePath # None => currentFilePath' # None]_vars
    /\ []((pc \in {"loop", "capture", "done"} /\ Len(fileStack) > 0)
            => currentFilePath = TopPath(fileStack))
    /\ [][( /\ pc = "parens"
            /\ Len(marks') = Len(marks) + 1
            /\ marks'[Len(marks')].token = ")"
            /\ openParentheses = 0
            /\ Len(fileStack) <= 1 )
          => fileStack' = fileStack /\ currentFilePath' = currentFilePath]_vars

\* C8 happens: a ')' was consumed while one entry was on the stack, and
\* that entry is still there and is the current file
C8_Witness ==
    /\ pc = "loop"
    /\ Len(fileStack) = 1
    /\ currentFilePath = Some(fileStack[1].path)
    /\ Len(marks) >= 3
    /\ marks[1].pushed # None
    /\ marks[2].token = ")"
    /\ marks[3].token = ")"

\* an ordinary '(' (one with no file path after it) is among the markers ms
NoOrdinaryOpen(ms) ==
    \A k \in 1..Len(ms) : ms[k].token = "(" => ms[k].pushed # None

RECURSIVE OpenFiles(_)
\* the files open after the markers ms by the nesting of the parentheses
\* alone: '(' with a path opens it, ')' closes the innermost open one
OpenFiles(ms) ==
    IF Len(ms) = 0 THEN <<>>
    ELSE LET before == OpenFiles(SubSeq(ms, 1, Len(ms) - 1))
             m == ms[Len(ms)]
         IN  IF m.pushed # None THEN Append(before, m.pushed[1])
             ELSE IF m.token = ")" /\ Len(before) > 0
                  THEN SubSeq(before, 1, Len(before) - 1)
             ELSE before

JoinsPrevious(w, i) ==
    /\ Len(w[i - 1]) = 79
    /\ SubSeq(w[i - 1], 77, 79) # <<".", ".", ".">>
    /\ (Len(w[i]) = 0 \/ w[i][1] # "!")

\* the physical lines that start a logical line
LineStarts(w) == {i \in 1..Len(w) : i = 1 \/ ~JoinsPrevious(w, i)}

RECURSIVE ConcatLines(_, _, _)
ConcatLines(w, from, to) ==
    IF from > to THEN <<>> ELSE w[from] \o ConcatLines(w, from + 1, to)

\* C10: physical line i is appended to the preceding logical line exactly
\* when line i-1 has length 79, does not end in "...", and line i does not
\* begin with '!'; every other physical line starts a new logical line.
C10_WrappedLinesRejoined ==
    pc = "loop" =>
        LET w == wrappedIn
            starts == LineStarts(w)
            Rank(i) == Cardinality({j \in starts : j <= i})
            LastOf(i) == IF \E j \in starts : j > i
                         THEN (CHOOSE j \in starts :
                                  j > i /\ \A k \in starts : k > i => j <= k) - 1
                         ELSE Len(w)
        IN  /\ Len(lines) = Cardinality(starts)
            /\ \A i \in starts : lines[Rank(i)] = ConcatLines(w, i, LastOf(i))

\* C10 happens: a 79-column line was rejoined with the line after it, and
\* a 79-column line ending in "..." was left alone
C10_Witness ==
    /\ pc = "loop"
    /\ Len(wrappedIn) = 3
    /\ wrappedIn[1] = W_FullDots
    /\ wrappedIn[2] = W_Full
    /\ wrappedIn[3] = W_Text
    /\ lines = <<W_FullDots, W_Full \o W_Text>>

\* the number written from 0-based position d of s on
NumberAt(s, d) == DigitsValue(Slice(s, d, DigitRunEnd(s, d)), 0)

\* where a number follows "line " or "lines " in s: <<position of the word,
\* position of the number>>
LineWordNumbers(s) ==
    {<<i, i + 5>> : i \in {k \in 0..Len(s) :
        OccursAt(s, <<"l", "i", "n", "e", " ">>, k)
        /\ k + 5 < Len(s) /\ IsDigit(s[k + 6])}}
    \cup
    {<<i, i + 6>> : i \in {k \in 0..Len(s) :
        OccursAt(s, <<"l", "i", "n", "e", "s", " ">>, k)
        /\ k + 6 < Len(s) /\ IsDigit(s[k + 7])}}

\* the first number that follows "line " or "lines " in s, if there is one
FirstLineNumber(s) ==
    LET c == LineWordNumbers(s)
    IN  IF c = {} THEN None
        ELSE Some(NumberAt(s, (CHOOSE p \in c : \A q \in c : p[1] <= q[1])[2]))

\* the three prefixes of a LaTeX-family warning line
WarningPrefixes ==
    { <<"L", "a", "T", "e", "X", " ", "W", "a", "r", "n", "i", "n", "g", ":", " ">>,
      <<"L", "a", "T", "e", "X", "3", " ", "W", "a", "r", "n", "i", "n", "g", ":", " ">>,
      <<"L", "a", "T", "e", "X", " ", "F", "o", "n", "t", " ", "W", "a", "r", "n", "i", "n", "g", ":", " ">> }
IsLatexWarningLine(l) == \E p \in WarningPrefixes : StartsWith(l, p)
\* the text of a LaTeX-family warning line after its prefix
AfterWarningPrefix(l) ==
    SliceFrom(l, Len(CHOOSE p \in WarningPrefixes : StartsWith(l, p)))

\* the four box warnings
BoxPrefixes ==
    { <<"O", "v", "e", "r", "f", "u", "l", "l", " ", "\\", "h", "b", "o", "x">>,
      <<"O", "v", "e", "r", "f", "u", "l", "l", " ", "\\", "v", "b", "o", "x">>,
      <<"U", "n", "d", "e", "r", "f", "u", "l", "l", " ", "\\", "h", "b", "o", "x">>,
      <<"U", "n", "d", "e", "r", "f", "u", "l", "l", " ", "\\", "v", "b", "o", "x">> }
IsBoxWarningLine(l) == \E p \in BoxPrefixes : StartsWith(l, p)

\* C11: a dispatched LaTeX-family warning line or box warning line adds
\* exactly one record and moves the cursor by that one line; the record of a
\* LaTeX-family warning has level Warning and message = the text after the
\* "Warning: " prefix, the record of a box warning has level Typesetting,
\* and in both line is the first number following "line " or "lines " in
\* that text, absent when there is none.
C11_SingleLineWarningRecord ==
    /\ [](\A i \in 1..Len(logItems) :
            /\ IsLatexWarningLine(trig[i].line) =>
                  /\ logItems[i].level = WARNING
                  /\ logItems[i].message = AfterWarningPrefix(trig[i].line)
                  /\ logItems[i].line = FirstLineNumber(logItems[i].message)
            /\ IsBoxWarningLine(trig[i].line) =>
                  /\ logItems[i].level = TYPESETTING
                  /\ logItems[i].line = FirstLineNumber(trig[i].line))
    /\ [][( /\ pc = "loop"
            /\ nextLine(lines, row).value # None
            /\ \/ IsLatexWarningLine(nextLine(lines, row).value[1])
               \/ IsBoxWarningLine(nextLine(lines, row).value[1]) )
          => /\ Len(logItems') = Len(logItems) + 1
             /\ SubSeq(logItems', 1, Len(logItems)) = logItems
             /\ trig'[Len(trig')].row = row + 1
             /\ row' = row + 1
             /\ pc' = "loop"]_vars

\* C11 happens: the warning with two numbers gave line 4, the box warning
\* line 3, and a warning without a number gave no line
C11_Witness ==
    /\ pc = "done"
    /\ Len(logItems) = 3
    /\ trig[1].line = WL_Two /\ logItems[1].line = Some(4)
    /\ trig[2].line = L_Hbox /\ logItems[2].line = Some(3)
    /\ trig[3].line = WL_None /\ logItems[3].line = None

\* C12: the records are in strictly increasing order of the index of their
\* triggering line; every line the main loop dispatches to a classifier
\* contributes exactly one record, appended at the end by the time the loop
\* takes its next line; and a record, once appended, is never removed,
\* moved or changed.
C12_RecordsInLogOrder ==
    /\ [](\A i, j \in 1..Len(trig) : i < j => trig[i].row < trig[j].row)
    /\ [](Len(logItems) = IF pc = "capture" THEN Len(trig) - 1 ELSE Len(trig))
    /\ [][SubSeq(logItems', 1, Len(logItems)) = logItems]_vars
    /\ [][( /\ pc = "loop"
            /\ nextLine(lines, row).value # None
            /\ Classify(nextLine(lines, row).value[1]) # "default" )
          => /\ Len(trig') = Len(trig) + 1
             /\ trig'[Len(trig')].row = row + 1
             /\ trig'[Len(trig')].line = lines[row + 2]
             /\ SubSeq(trig', 1, Len(trig)) = trig]_vars

\* C12 happens: two identical box warning lines gave two equal records
C12_Witness ==
    /\ pc = "done"
    /\ Len(logItems) = 2
    /\ trig[1].line = L_Hbox
    /\ trig[2].line = L_Hbox
    /\ logItems[1] = logItems[2]

\* C13: parseLog returns the empty list for a log text of length zero and
\* for every log made only of lines that no classifier takes (blank lines,
\* noise, file markers, the closing banner); a line that goes to the
\* default branch, and the scan of it, add no record.
C13_NoiseGivesNoRecords ==
    /\ []((pc = "done" /\ Len(logEntries) = 0) => logItems = <<>>)
    /\ []((pc = "done" /\ \A k \in 1..Len(wrappedIn) : wrappedIn[k] \in NoiseLines)
            => logItems = <<>>)
    /\ [][( \/ pc = "parens"
            \/ /\ pc = "loop"
               /\ nextLine(lines, row).value # None
               /\ nextLine(lines, row).value[1] \in NoiseLines )
          => logItems' = logItems /\ logItem' = logItem /\ state' = state]_vars

\* C13 happens: parseLog returned no record for a log of the closing
\* banner, a file marker and a line of spaces
C13_Witness ==
    /\ pc = "done"
    /\ logItems = <<>>
    /\ Len(lines) = 4
    /\ lines[2] = STR_FatalBanner
    /\ lines[3] = T_OpenA
    /\ lines[4] = N_Spaces
    /\ Len(marks) = 1

\* C14: parseLog ends with a record list for every log text it has read;
\* the one way it throws is the log file that was not found, before any
\* line is parsed, also when the name on a package, class or module warning
\* line holds a character that is special in a pattern.
C14_OnlyMissingLogFileAborts ==
    pc \in {"notFound", "syntaxError"} =>
        /\ pc = "notFound"
        /\ lines = <<>>
        /\ row = 0

RECURSIVE TrackLine(_, _, _)
\* the file stack parseParensForFilenames(l, open, stack) leaves
TrackLine(l, open, stack) ==
    LET c == ParensCall(l, open, stack)
    IN  IF c.found THEN TrackLine(c.line, c.openParentheses, c.fileStack)
        ELSE stack

RECURSIVE TrackLines(_, _, _)
\* the file stack after the tracker has scanned lines k..Len(ls) of ls, each
\* as the else branch scans a line
TrackLines(ls, k, stack) ==
    IF k > Len(ls) THEN stack
    ELSE TrackLines(ls, k + 1, TrackLine(ls[k], 0, stack))

\* C15: the tracker is applied to every logical line the cursor returns,
\* also to a line that a classifier takes and to a line consumed by an
\* error-context, runaway or package-warning capture: when parseLog
\* returns, the file stack is the one the markers of all these lines give.
C15_TrackerScansEveryLine ==
    (pc = "done" /\ Len(lines) > 0) =>
        /\ fileStack = TrackLines(lines, 2, <<>>)
        /\ currentFilePath = TopPath(fileStack)

\* the row (0-based) of the first line after row r that does not begin with
\* the tag "(name)" of a continuation line, or -1 when every later line does
FirstUnrelatedRow(r, name) ==
    LeastOr({k \in (r + 1)..(Len(lines) - 1) :
                ~StartsWith(FoldAll(lines[k + 1]),
                            FoldAll(<<"(">> \o name \o <<")">>))})

\* C16: the capture after a package, class or module warning line stops at
\* the first line that is not a continuation of that warning and leaves it
\* to the main loop: when a classifier takes that line, it triggers a
\* record of its own and its text is not part of the warning's message.
C16_PackageCaptureLeavesUnrelatedLine ==
    pc = "done" =>
        \A i \in 1..Len(logItems) :
            Classify(trig[i].line) = "package" =>
                LET stop == FirstUnrelatedRow(trig[i].row,
                                              PackageNameOf(trig[i].line))
                IN  (stop # -1 /\ Classify(lines[stop + 1]) # "default")
                    => /\ RecordsOfRow(stop) # {}
                       /\ ~Contains(logItems[i].message, lines[stop + 1])

\* the three blocks collected after the triggering line at row r, each
\* joined with separators, with a separator between two blocks
CapturedBlocks(r) ==
    LET b1 == linesUpToNextMatchingLine(lines, r, "context", FALSE, <<>>)
        b2 == linesUpToNextWhitespaceLine(lines, b1.row, TRUE)
        b3 == linesUpToNextWhitespaceLine(lines, b2.row, TRUE)
    IN  JoinWith(b1.lines, LF) \o LF \o JoinWith(b2.lines, LF)
           \o LF \o JoinWith(b3.lines, LF)

\* C17: the record opened by a fatal-error or a file:line:error line has,
\* once appended, content = exactly the three captured blocks (text of the
\* log and separators only) and raw = the triggering line, a separator and
\* that content; and the state is NORMAL, with no record open, whenever the
\* loop takes its next line.
C17_ErrorRecordHoldsCapturedBlocks ==
    /\ \A i \in 1..Len(logItems) :
          Classify(trig[i].line) \in {"fatal", "fileline"} =>
              /\ logItems[i].content = Some(CapturedBlocks(trig[i].row))
              /\ logItems[i].raw =
                    trig[i].line \o LF \o CapturedBlocks(trig[i].row)
    /\ pc = "loop" => (state = NORMAL /\ logItem = None)

\* the row (0-based) of the first line after row r that begins with "! ",
\* and of the first one that ends a collection of kind, or -1
FirstErrorRow(r) ==
    LeastOr({k \in (r + 1)..(Len(lines) - 1) :
                StartsWith(lines[k + 1], <<"!", " ">>)})
FirstMatchRow(r, kind) ==
    LeastOr({k \in (r + 1)..(Len(lines) - 1) : MatchesKind(kind, lines[k + 1])})

\* a collection started at row r reaches a line that begins with "! "
\* before a line that ends it
ReachesErrorLine(r, kind) ==
    /\ FirstErrorRow(r) # -1
    /\ FirstMatchRow(r, kind) = -1 \/ FirstErrorRow(r) < FirstMatchRow(r, kind)

\* the row of the "! " line at which the capture of the record triggered at
\* row r stopped and rewound, or -1 when it did not
CaptureStopRow(r) ==
    LET b1 == linesUpToNextMatchingLine(lines, r, "context", FALSE, <<>>)
        b2 == linesUpToNextWhitespaceLine(lines, b1.row, TRUE)
    IN  IF ReachesErrorLine(b1.row, "blank") THEN FirstErrorRow(b1.row)
        ELSE IF ReachesErrorLine(b2.row, "blank") THEN FirstErrorRow(b2.row)
        ELSE -1

\* C18: a collection with stopAtError that reaches a line beginning with
\* "! " returns the lines before it and not that line, and leaves the
\* cursor one position back, so that the next advance returns that line;
\* a collection without stopAtError, or one that reaches no such line,
\* leaves the cursor further on than it started.  After an error capture
\* that stopped at such a line, the main loop takes that line next.
C18_StopAtErrorRewindsOneLine ==
    /\ [](pc = "capture" =>
            \A r \in 0..Len(lines), kind \in {"context", "blank"},
               stopAtError \in BOOLEAN :
                LET res == linesUpToNextMatchingLine(lines, r, kind,
                                                     stopAtError, <<>>)
                    f == FirstErrorRow(r)
                IN  IF stopAtError /\ ReachesErrorLine(r, kind)
                    THEN /\ res.lines = SubSeq(lines, r + 2, f)
                         /\ res.row = f - 1
                         /\ nextLine(lines, res.row).value = Some(lines[f + 1])
                    ELSE /\ res.row > r
                         /\ res.row >= r + Len(res.lines))
    /\ [][(pc = "capture" /\ CaptureStopRow(row) # -1)
            => /\ pc' = "loop"
               /\ nextLine(lines', row').row = CaptureStopRow(row)
               /\ nextLine(lines', row').value
                     = Some(lines[CaptureStopRow(row) + 1])]_vars
    /\ [](pc = "done" =>
            \A i \in 1..Len(logItems) :
                ( /\ Classify(trig[i].line) \in {"fatal", "fileline"}
                  /\ CaptureStopRow(trig[i].row) # -1 )
                => /\ RecordsOfRow(CaptureStopRow(trig[i].row)) # {}
                   /\ i < Len(trig)
                   /\ trig[i + 1].row = CaptureStopRow(trig[i].row))

\* C18 happens: the capture of "! A" stopped at the "! A" after its context
\* line, which is not in the first record and triggered the second one
C18_Witness ==
    /\ pc = "done"
    /\ Len(logItems) = 2
    /\ lines[2] = L_Fatal /\ lines[3] = L_Context /\ lines[4] = L_Fatal
    /\ trig[1].row = 1
    /\ CaptureStopRow(1) = 3
    /\ trig[2].row = 3
    /\ logItems[1].content = Some(L_Context \o LF \o LF)

\* C19: parseLog terminates on every log: each step taken at the head of
\* the main loop moves the cursor forward and no other step moves it back,
\* so the cursor is strictly further on at each iteration than at the one
\* before; the scan of a line shortens what is left of it at every marker;
\* every collection ends at a matching line, at a rewind or at the end of
\* the input, with the cursor not before where it started; the cursor
\* never goes below its starting position; and from the head of its main
\* loop parseLog reaches its return.
C19_ParseLogTerminates ==
    /\ [][pc = "loop" => row' > row]_vars
    /\ [][row' >= row]_vars
    /\ [](row >= 0)
    /\ [][(pc = "parens" /\ pc' = "parens") => Len(scanLine') < Len(scanLine)]_vars
    /\ [](pc = "capture" =>
            \A r \in 0..Len(lines), kind \in {"context", "blank"},
               stopAtError \in BOOLEAN :
                LET res == linesUpToNextMatchingLine(lines, r, kind,
                                                     stopAtError, <<>>)
                    n == Len(res.lines)
                IN  /\ res.row >= r
                    /\ \/ res.row >= Len(lines)
                       \/ /\ n > 0
                          /\ MatchesKind(kind, res.lines[n])
                          /\ res.row = r + n
                       \/ /\ stopAtError
                          /\ res.row = r + n
                          /\ MatchesFatalMarker(lines[res.row + 2]))
    /\ (pc = "loop") ~> (pc = "done")

\* C19 happens: parseLog returned after a capture that rewound, the cursor
\* past the last line
C19_Witness ==
    /\ pc = "done"
    /\ row >= Len(lines)
    /\ Len(lines) = 4
    /\ lines[2] = L_FileLine /\ lines[3] = L_Context /\ lines[4] = L_Fatal
    /\ Len(trig) = 2
    /\ trig[2].row = 3

RECURSIVE CarriedStack(_, _, _, _)
\* the file stack after the markers ms[k..] when the count of ordinary '('
\* not yet closed is carried from one marker to the next, across lines
CarriedStack(ms, k, open, stack) ==
    IF k > Len(ms) THEN stack
    ELSE IF ms[k].pushed # None
         THEN CarriedStack(ms, k + 1, open, Append(stack, FileEntry(ms[k].pushed[1])))
    ELSE IF ms[k].token = "(" THEN CarriedStack(ms, k + 1, open + 1, stack)
    ELSE IF open > 0 THEN CarriedStack(ms, k + 1, open - 1, stack)
    ELSE CarriedStack(ms, k + 1, open,
                      IF Len(stack) > 1 THEN SubSeq(stack, 1, Len(stack) - 1)
                      ELSE stack)

\* C20: a ')' that closes an ordinary '(' changes neither the file stack nor
\* the current file, also when the '(' is on an earlier line: the file
\* stack is the one the markers give with the count of open ordinary
\* parentheses carried from line to line.
C20_OrdinaryParenthesesAcrossLines ==
    pc \in {"loop", "done"} =>
        /\ fileStack = CarriedStack(marks, 1, 0, <<>>)
        /\ Len(fileStack) > 0 =>
              currentFilePath = TopPath(CarriedStack(marks, 1, 0, <<>>))

(***************************************************************************)
(* render with in-memory files, from the call to every way out of it, over *)
(* the logs of at most MaxTempLines lines the compiler may leave           *)
(***************************************************************************)
MaxTempLines == 2

TempPool == {L_Fatal, L_Package, P_Open, L_Open, L_Blank}

\* the ways out of render: the return, and the exceptions of the check of
\* the source file, of parseLog and of the read of the PDF
ExitPoints == {"returned", "sourceNotFound", "notFound", "syntaxError",
               "readFailed"}

\* the exceptions among them
ThrowPoints == ExitPoints \ {"returned"}

InitTemp ==
    /\ wrappedIn \in SeqsUpTo(TempPool, MaxTempLines)
    /\ separators = [i \in 1..(Len(wrappedIn) - 1) |-> LF]
    /\ logEntries = WriteLines(wrappedIn, separators)
    /\ lines = <<>>
    /\ row = 0
    /\ state = NORMAL
    /\ logItem = None
    /\ logItems = <<>>
    /\ currentFilePath = None
    /\ fileStack = <<>>
    /\ scanLine = <<>>
    /\ openParentheses = 0
    /\ pc = "render"
    /\ trig = <<>>
    /\ marks = <<>>
    /\ logLevel = None
    /\ impl = ""
    /\ logs = <<>>
    /\ files = None
    /\ source = Path("", "", "")
    /\ tempDir = None
    /\ pdf = None
    /\ tmp \in {d \in SUBSET TempNames : d # TempNames}

NextTemp ==
    \/ RenderBuffer
    \/ Compile
    \/ LogFileNotFound
    \/ ReturnEmpty
    \/ CreateLog
    \/ DispatchFatal
    \/ ErrorCapture
    \/ DispatchPackageWarning
    \/ PackageWarningThrows
    \/ DispatchDefault
    \/ ParensStep
    \/ ParensReturn
    \/ ReturnLogItems
    \/ Render

SpecTemp == InitTemp /\ [][NextTemp]_vars

\* the directory render made for the files is still under os.tmpdir()
TempDirLeft == tempDir # None /\ tempDir[1] \in tmp

\* C21: when render is called with in-memory files, the temporary directory
\* it made has been removed on every way out of the call: when it returns,
\* with or without a PDF, and when it throws
C21_TempDirRemovedOnEveryWayOut ==
    (pc \in ExitPoints /\ files # None) => ~TempDirLeft

\* the part of C21 about the returns: a render that returns leaves no
\* directory of its own, and leaves the directories of others alone
ReturnRemovesTempDir ==
    [][(pc' = "returned" /\ pc # "returned" /\ tempDir # None)
          => tmp' = tmp \ {tempDir[1]}]_vars

\* the part of C21 about the exceptions: every exception of a render with
\* in-memory files leaves the directory behind
ThrowLeavesTempDir ==
    (pc \in ThrowPoints /\ files # None) => TempDirLeft
====
